---- MODULE Spec2Model ----
(***************************************************************************)
(* Model of multi-semantic-release: lib/multiSemanticRelease.js (the       *)
(* orchestrator, getPackage and releasePackage) together with the          *)
(* collaborators it calls (getSynchronizer, createInlinePluginCreator,     *)
(* isCyclicProject), which are modelled from the design description.       *)
(***************************************************************************)
EXTENDS Integers, Sequences, FiniteSets, TLC

\* ------------------------------------------------------------------ bounds
MaxUnits == 2        \* number of sources handed to multiSemanticRelease
MaxClaimants == 3    \* number of sources of a sequentialInit run
MaxNameLen == 2      \* characters of a unit name (tag menu)
MaxVersionLen == 2   \* characters of a version (tag menu)

\* ------------------------------------------------------------- vocabulary
Absent == "absent"          \* a JavaScript value that is not there (falsy)
Undefined == "undefined"    \* pkg.result before the engine has returned
Skipped == "false"          \* semanticRelease() resolved to false
Released == "released"      \* semanticRelease() resolved to a Result object
VersionVar == "${version}"  \* the placeholder of a tag template

Range(s) == {s[i] : i \in DOMAIN s}

\* Names are sequences of characters.
NameOrder == << <<"a">>, <<"b">>, <<"c">>, <<"d">>, <<"x">> >>
UnitName(i) == NameOrder[i]
ExternalName == <<"x">>

\* A dependency map of a manifest is the list of its keys in insertion
\* order, each key once: Object.keys returns that list.
KeysOf(map) == map

\* The key lists a map over the names S can have: every selection of the
\* names in every order.
RECURSIVE KeyLists(_)
KeyLists(S) == {<<>>} \cup UNION {{<<x>> \o l : l \in KeyLists(S \ {x})} : x \in S}

\* Object spread {...a, ...b} on the keys: a key keeps its first position.
SpreadKeys(a, b) == a \o SelectSeq(b, LAMBDA n : n \notin Range(a))

\* getPackage: deps = Object.keys({...dependencies, ...devDependencies,
\*                                 ...peerDependencies, ...optionalDependencies})
DepsOf_NoOptional(m) ==
    SpreadKeys(SpreadKeys(KeysOf(m.dependencies), KeysOf(m.devDependencies)),
               KeysOf(m.peerDependencies))
DepsOf(m) ==
    SpreadKeys(SpreadKeys(SpreadKeys(KeysOf(m.dependencies), KeysOf(m.devDependencies)),
                          KeysOf(m.peerDependencies)),
               KeysOf(m.optionalDependencies))

\* getPackage: the package object built from a source manifest and the
\* options getConfigSemantic returned for its directory.
getPackage(m, opts) ==
    [name |-> m.name, manifest |-> m, deps |-> DepsOf(m), options |-> opts]

\* packages.find((p) => d === p.name): the first package of that name, 0 for none.
FindPackage_ByObject(pkgs, d) == 0
FindPackage(pkgs, d) ==
    IF \E i \in DOMAIN pkgs : pkgs[i].name = d
    THEN CHOOSE i \in DOMAIN pkgs :
            /\ pkgs[i].name = d
            /\ \A j \in 1..(i - 1) : pkgs[j].name # d
    ELSE 0

\* lodash uniq: keeps the first occurrence of every element.
RECURSIVE Uniq(_)
Uniq(s) ==
    IF s = <<>> THEN <<>>
    ELSE LET front == Uniq(SubSeq(s, 1, Len(s) - 1))
             last == s[Len(s)]
         IN IF last \in Range(front) THEN front ELSE Append(front, last)

\* pkg.localDeps = uniq(pkg.deps.map(find).filter(Boolean))
LocalDepsOf(pkgs, i) ==
    LET found == [k \in DOMAIN pkgs[i].deps |-> FindPackage(pkgs, pkgs[i].deps[k])]
    IN Uniq(SelectSeq(found, LAMBDA j : j # 0))

\* isCyclicProject(packages): the local-dependency graph has a directed cycle.
RECURSIVE ReachFrom(_, _, _)
ReachFrom(ld, frontier, visited) ==
    LET next == UNION {Range(ld[u]) : u \in frontier} \ visited
    IN IF next = {} THEN visited ELSE ReachFrom(ld, next, visited \cup next)
Reachable(ld, u) == ReachFrom(ld, {u}, {})
isCyclicProject(ld) == \E u \in DOMAIN ld : u \in Reachable(ld, u)

\* ------------------------------------------------------- options and tags
\* An options object is modelled by its tagFormat entry: NoTemplate when
\* the key is not set, or a template (a sequence of characters and
\* VersionVar placeholders).
NoTemplate == <<>>
\* { ...flags, ...pkgOptions, ...inlinePlugin }: a later spread wins.
SpreadOptions_FlagsLast(fl, pkgOptions, inlinePlugin) ==
    [tagFormat |->
        IF inlinePlugin.tagFormat # NoTemplate THEN inlinePlugin.tagFormat
        ELSE IF fl.tagFormat # NoTemplate THEN fl.tagFormat
        ELSE pkgOptions.tagFormat,
     branches |->
        IF inlinePlugin.branches # Undefined THEN inlinePlugin.branches
        ELSE IF fl.branches # Undefined THEN fl.branches
        ELSE pkgOptions.branches,
     other |->
        IF inlinePlugin.other # Undefined THEN inlinePlugin.other
        ELSE IF fl.other # Undefined THEN fl.other
        ELSE pkgOptions.other]
SpreadOptions(fl, pkgOptions, inlinePlugin) ==
    [tagFormat |->
        IF inlinePlugin.tagFormat # NoTemplate THEN inlinePlugin.tagFormat
        ELSE IF pkgOptions.tagFormat # NoTemplate THEN pkgOptions.tagFormat
        ELSE fl.tagFormat,
     branches |->
        IF inlinePlugin.branches # Undefined THEN inlinePlugin.branches
        ELSE IF pkgOptions.branches # Undefined THEN pkgOptions.branches
        ELSE fl.branches,
     other |->
        IF inlinePlugin.other # Undefined THEN inlinePlugin.other
        ELSE IF pkgOptions.other # Undefined THEN pkgOptions.other
        ELSE fl.other]

\* getPackage: finalOptions = Object.assign({}, globalOptions, pkgOptions,
\* inputOptions): a later source wins.
FinalOptions(globalOptions, pkgOptions, inputOptions) ==
    [tagFormat |->
        IF inputOptions.tagFormat # NoTemplate THEN inputOptions.tagFormat
        ELSE IF pkgOptions.tagFormat # NoTemplate THEN pkgOptions.tagFormat
        ELSE globalOptions.tagFormat,
     branches |->
        IF inputOptions.branches # Undefined THEN inputOptions.branches
        ELSE IF pkgOptions.branches # Undefined THEN pkgOptions.branches
        ELSE globalOptions.branches,
     other |->
        IF inputOptions.other # Undefined THEN inputOptions.other
        ELSE IF pkgOptions.other # Undefined THEN pkgOptions.other
        ELSE globalOptions.other]

\* getConfigSemantic: the options of the engine's configuration loader
\* for the final options, "including defaults": a key the final options
\* leave unset gets the engine's default when the engine has one (the tag
\* template and the branches do, the key "other" stands for one that does
\* not).
DefaultTagFormat == <<"v", VersionVar>>
DefaultBranches == "default"
getConfigSemantic(finalOptions) ==
    [tagFormat |->
        IF finalOptions.tagFormat # NoTemplate THEN finalOptions.tagFormat
        ELSE DefaultTagFormat,
     branches |->
        IF finalOptions.branches # Undefined THEN finalOptions.branches
        ELSE DefaultBranches,
     other |-> finalOptions.other]

\* releasePackage: the options semanticRelease() is called with.
ReleaseOptions_KeepTagFormat(name, fl, pkgOptions, inlinePlugin) ==
    [invoked |-> TRUE,
     tagFormat |-> SpreadOptions(fl, pkgOptions, inlinePlugin).tagFormat,
     branches |-> SpreadOptions(fl, pkgOptions, inlinePlugin).branches,
     other |-> SpreadOptions(fl, pkgOptions, inlinePlugin).other,
     _pkgOptions |-> pkgOptions]
ReleaseOptions(name, fl, pkgOptions, inlinePlugin) ==
    [invoked |-> TRUE,
     tagFormat |-> name \o <<"@", VersionVar>>,
     branches |-> SpreadOptions(fl, pkgOptions, inlinePlugin).branches,
     other |-> SpreadOptions(fl, pkgOptions, inlinePlugin).other,
     _pkgOptions |-> pkgOptions]

\* The release engine renders a tag by substituting the version for every
\* placeholder of the template.
RECURSIVE RenderTag(_, _)
RenderTag(template, version) ==
    IF template = <<>> THEN <<>>
    ELSE (IF Head(template) = VersionVar THEN version ELSE <<Head(template)>>)
            \o RenderTag(Tail(template), version)

\* ------------------------------------------------------------ Synchronizer
\* The "_readyForRelease" signal: lucky is the driver (0 while unclaimed),
\* queue the later claimants in claim order, granted the units whose turn
\* has arrived.
NoSynchronizer == [created |-> FALSE, lucky |-> 0, queue |-> <<>>, granted |-> {}]
getSynchronizer == [created |-> TRUE, lucky |-> 0, queue |-> <<>>, granted |-> {}]

\* getLucky(signal, pkg): the first claimant becomes the driver and may
\* proceed; later claimants are queued.
getLucky(sync, u) ==
    IF sync.lucky = 0
    THEN [sync EXCEPT !.lucky = u, !.granted = @ \cup {u}]
    ELSE [sync EXCEPT !.queue = Append(@, u)]

\* waitFor(signal, pkg) resolves once the unit's turn has arrived.
waitFor(sync, u) == u \in sync.granted

\* The release performed when a claimant has finished the phase it claimed:
\* the next queued unit gets its turn.
emitNext(sync) ==
    IF sync.queue = <<>> THEN sync
    ELSE [sync EXCEPT !.granted = @ \cup {Head(sync.queue)}, !.queue = Tail(@)]

\* ------------------------------------------------------------------- state
VARIABLES
    args,          \* what the caller passed: paths, packageManifests, settings
    flags,         \* argv flags: sequentialInit, sequentialPrepare, deps, options
    phase,         \* position of multiSemanticRelease
    error,         \* the error multiSemanticRelease rejected with
    packages,      \* the loaded Package objects, in source order
    localDeps,     \* pkg.localDeps, as indices into packages
    result,        \* pkg.result
    pc,            \* position of each unit's task
    synchronizer,  \* the shared signal bus
    seen,          \* the dependency results a unit's analyze/prepare stage read
    released,      \* the count reported in the final log line (-1: none yet)
    engineOpts,    \* the options semanticRelease() was called with, per unit
    config,        \* the sources and the option layers read while loading
    release,       \* what each unit's pipeline has decided about its release
    cli            \* the command line: the flags given and the flags passed on

vars == <<args, flags, phase, error, packages, localDeps, result, pc,
          synchronizer, seen, released, engineOpts, config, release, cli>>

Units == DOMAIN packages
NoOptions == [tagFormat |-> NoTemplate, branches |-> Undefined, other |-> Undefined]
NoConfig ==
    [sources |-> <<>>, globalOptions |-> NoOptions, inputOptions |-> NoOptions,
     pkgOptions |-> <<>>]
NoCli == [given |-> <<>>, processed |-> FALSE, passed |-> {}]

\* The flags the command line passes when none is given: deps.bump and
\* deps.release.
DefaultDeps == [bump |-> "override", release |-> "patch"]
\* What a unit's pipeline has decided: the release type of its own commits,
\* the effective release type, the version it releases, the version ranges
\* its manifest declares for released local dependencies.
LastVersion == <<1, 0, 0>>
NotAnalyzed ==
    [own |-> "unanalyzed", nextType |-> "none", version |-> LastVersion,
     ranges |-> {}]
ArgKinds == {Absent, "list", "invalid"}

InitRun(ArgMenu, FlagMenu) ==
    /\ args \in ArgMenu
    /\ flags \in FlagMenu
    /\ phase = "start"
    /\ error = "none"
    /\ packages = <<>>
    /\ localDeps = <<>>
    /\ result = <<>>
    /\ pc = <<>>
    /\ synchronizer = NoSynchronizer
    /\ seen = <<>>
    /\ released = -1
    /\ engineOpts = <<>>
    /\ config = NoConfig
    /\ release = <<>>

InitWith(ArgMenu, FlagMenu) ==
    /\ InitRun(ArgMenu, FlagMenu)
    /\ cli = NoCli

AllArgs == [paths : ArgKinds, packageManifests : ArgKinds, settings : {"ok", "invalid"}]
RunFlags ==
    [sequentialInit : BOOLEAN, sequentialPrepare : BOOLEAN, tagFormat : {NoTemplate},
     deps : {DefaultDeps}, branches : {Undefined}, other : {Undefined}]

Init == InitWith(AllArgs, RunFlags)

\* ------------------------------------------------- multiSemanticRelease()
NotInvoked ==
    [invoked |-> FALSE, tagFormat |-> NoTemplate, branches |-> Undefined,
     other |-> Undefined,
     _pkgOptions |-> NoOptions]

\* !paths && !packageManifests
NeitherSupplied_Never(a) == FALSE
NeitherSupplied(a) == a.paths = Absent /\ a.packageManifests = Absent

\* const sources = paths || packageManifests
Sources(a) ==
    IF a.paths # Absent THEN "paths"
    ELSE IF a.packageManifests # Absent THEN "packageManifests"
    ELSE Absent

\* The parameter checks, in the order the code makes them; "none" when the
\* run may start.
CheckOutcome(a) ==
    IF a.paths = "invalid" THEN "ValueError"
    ELSE IF a.packageManifests = "invalid" THEN "ValueError"
    ELSE IF NeitherSupplied(a) THEN "Error:noSources"
    ELSE IF a.settings = "invalid" THEN "ValueError"
    ELSE IF Sources(a) = Absent THEN "TypeError"
    ELSE "none"

CheckParams ==
    /\ phase = "start"
    /\ IF CheckOutcome(args) = "none"
       THEN phase' = "checked" /\ error' = error
       ELSE phase' = "rejected" /\ error' = CheckOutcome(args)
    /\ UNCHANGED <<args, flags, packages, localDeps, result, pc, synchronizer,
                   seen, released, engineOpts, config, release,
                   cli>>

Manifest(n, deps, dev, peer, opt) ==
    [name |-> n, dependencies |-> deps, devDependencies |-> dev,
     peerDependencies |-> peer, optionalDependencies |-> opt]

\* packages = await Promise.all(sources.map((pkg) => getPackage(pkg, ...)))
LoadWith(ms, globalOptions, pkgOptions, inputOptions) ==
    /\ phase' = "loaded"
    /\ packages' = [i \in DOMAIN ms |->
                       getPackage(ms[i],
                                  getConfigSemantic(FinalOptions(globalOptions,
                                                                 pkgOptions[i],
                                                                 inputOptions)))]
    /\ result' = [i \in DOMAIN ms |-> Undefined]
    /\ pc' = [i \in DOMAIN ms |-> "unstarted"]
    /\ seen' = [i \in DOMAIN ms |-> {}]
    /\ engineOpts' = [i \in DOMAIN ms |-> NotInvoked]
    /\ release' = [i \in DOMAIN ms |-> NotAnalyzed]
    /\ config' = [sources |-> ms, globalOptions |-> globalOptions,
                  inputOptions |-> inputOptions, pkgOptions |-> pkgOptions]
    /\ UNCHANGED <<args, flags, error, localDeps, synchronizer, released, cli>>

\* Loading when only the units' own configuration sets options.
Load(ms, os) == LoadWith(ms, NoOptions, os, NoOptions)

\* The sources of a run: unit i is named UnitName(i) and declares any
\* selection of the loaded units' names, in any order, as dependencies.
RunSources(n) ==
    {[i \in 1..n |-> Manifest(UnitName(i), D[i], <<>>, <<>>, <<>>)] :
        D \in [1..n -> KeyLists({UnitName(j) : j \in 1..n})]}

LoadPackages ==
    /\ phase = "checked"
    /\ \E n \in 0..MaxUnits : \E ms \in RunSources(n) :
            Load(ms, [i \in 1..n |-> NoOptions])

\* packages.forEach((pkg) => { pkg.localDeps = ... })
LinkLocalDeps ==
    /\ phase = "loaded"
    /\ phase' = "linked"
    /\ localDeps' = [i \in Units |-> LocalDepsOf(packages, i)]
    /\ UNCHANGED <<args, flags, error, packages, result, pc, synchronizer,
                   seen, released, engineOpts, config, release,
                   cli>>

\* flags.sequentialPrepare && isCyclicProject(packages)
CyclicRejected_Unchecked(fl, ld) == FALSE
CyclicRejected(fl, ld) == fl.sequentialPrepare /\ isCyclicProject(ld)

CycleCheck ==
    /\ phase = "linked"
    /\ IF CyclicRejected(flags, localDeps)
       THEN phase' = "rejected" /\ error' = "ValueError:cyclic"
       ELSE phase' = "queued" /\ error' = error
    /\ UNCHANGED <<args, flags, packages, localDeps, result, pc, synchronizer,
                   seen, released, engineOpts, config, release,
                   cli>>

\* createInlinePlugin(pkg): the intercepted stage set; it carries no tagFormat.
createInlinePlugin(u) == NoOptions

\* if (flags.sequentialInit) { getLucky(...); await waitFor(...) }
NeedsInitGate_Never(fl) == FALSE
NeedsInitGate(fl) == fl.sequentialInit

RECURSIVE ClaimAll_Reversed(_, _, _)
ClaimAll_Reversed(sync, k, n) ==
    IF k > n THEN sync ELSE getLucky(ClaimAll_Reversed(sync, k + 1, n), k)
RECURSIVE ClaimAll(_, _, _)
ClaimAll(sync, k, n) ==
    IF k > n THEN sync ELSE ClaimAll(getLucky(sync, k), k + 1, n)

Invoke(u, inlinePlugin) ==
    ReleaseOptions(packages[u].name, flags, packages[u].options, inlinePlugin)

\* packages.map(async (pkg) => ...): every task runs, in list order, up to
\* its first await.
SpawnTasks ==
    /\ phase = "queued"
    /\ phase' = "running"
    /\ IF NeedsInitGate(flags)
       THEN /\ synchronizer' = ClaimAll(getSynchronizer, 1, Len(packages))
            /\ pc' = [u \in Units |-> "waitInit"]
            /\ engineOpts' = engineOpts
       ELSE /\ synchronizer' = getSynchronizer
            /\ pc' = [u \in Units |-> "verify"]
            /\ engineOpts' = [u \in Units |-> Invoke(u, createInlinePlugin(u))]
    /\ UNCHANGED <<args, flags, error, packages, localDeps, result, seen,
                   released, config, release,
                   cli>>

\* await waitFor("_readyForRelease", pkg) resolves; releasePackage() calls
\* semanticRelease().
PassInitGate(u) ==
    /\ pc[u] = "waitInit"
    /\ waitFor(synchronizer, u)
    /\ pc' = [pc EXCEPT ![u] = "verify"]
    /\ engineOpts' = [engineOpts EXCEPT ![u] = Invoke(u, createInlinePlugin(u))]
    /\ UNCHANGED <<args, flags, phase, error, packages, localDeps, result,
                   synchronizer, seen, released, config, release,
                   cli>>

\* ------------------------------------------- the intercepted unit pipeline
CommitTypes == {"none", "minor"}

Magnitude(t) ==
    CASE t = "major" -> 3 [] t = "minor" -> 2 [] t = "patch" -> 1 [] OTHER -> 0
Highest(types) ==
    CHOOSE t \in types \cup {"none"} :
        \A s \in types \cup {"none"} : Magnitude(s) <= Magnitude(t)

\* Dependency-release propagation: a released local dependency forces the
\* policy's bump (inherit: the highest bump among the released dependencies).
resolveReleaseType(policy, own, depTypes) ==
    LET forced == IF depTypes \ {"none"} = {} THEN "none"
                  ELSE IF policy = "inherit" THEN Highest(depTypes)
                  ELSE policy
    IN Highest({own, forced})

\* The version the engine derives from the last release and the release type.
NextVersion(v, t) ==
    CASE t = "major" -> <<v[1] + 1, 0, 0>>
      [] t = "minor" -> <<v[1], v[2] + 1, 0>>
      [] t = "patch" -> <<v[1], v[2], v[3] + 1>>
      [] OTHER -> v

\* The released local dependencies a stage has read.
ReleasedDeps(u) == {r[1] : r \in {q \in seen[u] : q[2] = Released}}
NextTypeOf(u, own) ==
    resolveReleaseType(flags.deps.release, own,
                       {release[d].nextType : d \in ReleasedDeps(u)})

\* Dependency-bump: override (and satisfy, for a pinned range the new
\* version leaves) pins the range of every released local dependency to its
\* new version; inherit leaves the ranges alone.
updateManifestDeps(policy, rel, u, deps) ==
    IF policy = "inherit" THEN rel[u].ranges
    ELSE {r \in rel[u].ranges : r[1] \notin deps} \cup {<<d, rel[d].version>> : d \in deps}

\* verifyConditions has finished: under sequentialInit the next queued
\* claimant of "_readyForRelease" is released.
VerifyDone(u) ==
    /\ pc[u] = "verify"
    /\ pc' = [pc EXCEPT ![u] = "gate"]
    /\ synchronizer' = IF flags.sequentialInit THEN emitNext(synchronizer)
                       ELSE synchronizer
    /\ UNCHANGED <<args, flags, phase, error, packages, localDeps, result,
                   seen, released, engineOpts, config, release,
                   cli>>

\* The dependency-result gate of analyzeCommits: every local dependency has
\* a non-pending result.
DepGateOpen_OnlySequentialPrepare(fl, ld, res, u) ==
    fl.sequentialPrepare => \A d \in Range(ld[u]) : res[d] # Undefined
DepGateOpen(fl, ld, res, u) == \A d \in Range(ld[u]) : res[d] # Undefined

\* What a stage reads of its local dependencies: their results.
ReadDeps(ld, res, u) == {<<d, res[d]>> : d \in Range(ld[u])}

PassDepGate(u) ==
    /\ pc[u] = "gate"
    /\ DepGateOpen(flags, localDeps, result, u)
    /\ pc' = [pc EXCEPT ![u] = "analyze"]
    /\ seen' = [seen EXCEPT ![u] = @ \cup ReadDeps(localDeps, result, u)]
    /\ UNCHANGED <<args, flags, phase, error, packages, localDeps, result,
                   synchronizer, released, engineOpts, config, release,
                   cli>>

\* pkg.result = await semanticRelease(...): the assignment made when the
\* engine invocation of unit u resolves to outcome out.
ResultOnReturn_Shared(res, u, out) == [v \in DOMAIN res |-> out]
ResultOnReturn(res, u, out) == [res EXCEPT ![u] = out]

\* ... and when it rejects: the assignment is not reached.
ResultOnFailure(res, u) == res

\* analyzeCommits has decided that a release is warranted.
AnalyzeRelease(u) ==
    /\ pc[u] = "analyze"
    /\ \E own \in CommitTypes :
          /\ NextTypeOf(u, own) # "none"
          /\ release' = [release EXCEPT ![u] =
                            [@ EXCEPT !.own = own,
                                      !.nextType = NextTypeOf(u, own),
                                      !.version = NextVersion(LastVersion, NextTypeOf(u, own))]]
    /\ pc' = [pc EXCEPT ![u] = "prepare"]
    /\ UNCHANGED <<args, flags, phase, error, packages, localDeps, result,
                   synchronizer, seen, released, engineOpts, config, cli>>

\* analyzeCommits has decided that no release is warranted: the engine
\* returns false and the task ends.
AnalyzeSkip(u) ==
    /\ pc[u] = "analyze"
    /\ \E own \in CommitTypes :
          /\ NextTypeOf(u, own) = "none"
          /\ release' = [release EXCEPT ![u] = [@ EXCEPT !.own = own]]
    /\ pc' = [pc EXCEPT ![u] = "done"]
    /\ result' = ResultOnReturn(result, u, Skipped)
    /\ UNCHANGED <<args, flags, phase, error, packages, localDeps,
                   synchronizer, seen, released, engineOpts, config, cli>>

\* prepare rewrites the ranges of the released local dependencies, then
\* delegates.
PrepareDone(u) ==
    /\ pc[u] = "prepare"
    /\ pc' = [pc EXCEPT ![u] = "publish"]
    /\ seen' = [seen EXCEPT ![u] = @ \cup ReadDeps(localDeps, result, u)]
    /\ release' = [release EXCEPT ![u] =
                      [@ EXCEPT !.ranges = updateManifestDeps(flags.deps.bump, release, u,
                                                              ReleasedDeps(u))]]
    /\ UNCHANGED <<args, flags, phase, error, packages, localDeps, result,
                   synchronizer, released, engineOpts, config, cli>>

\* publish/success have finished: the engine returns the release outcome.
EngineReturn(u) ==
    /\ pc[u] = "publish"
    /\ pc' = [pc EXCEPT ![u] = "done"]
    /\ result' = ResultOnReturn(result, u, Released)
    /\ UNCHANGED <<args, flags, phase, error, packages, localDeps,
                   synchronizer, seen, released, engineOpts, config, release,
                   cli>>

\* A stage's delegate fails: semanticRelease() rejects and so does the task.
ActiveStages == {"verify", "analyze", "prepare", "publish"}
EngineFail(u) ==
    /\ pc[u] \in ActiveStages
    /\ pc' = [pc EXCEPT ![u] = "failed"]
    /\ result' = ResultOnFailure(result, u)
    /\ UNCHANGED <<args, flags, phase, error, packages, localDeps,
                   synchronizer, seen, released, engineOpts, config, release,
                   cli>>

\* await Promise.all(tasks): rejected as soon as one task has rejected,
\* resolved once every task has resolved, pending otherwise.
PromiseAll(p) ==
    IF \E u \in DOMAIN p : p[u] = "failed" THEN "rejected"
    ELSE IF \A u \in DOMAIN p : p[u] = "done" THEN "resolved"
    ELSE "pending"

\* const released = packages.filter((pkg) => pkg.result).length
CountReleased_All(res) == Cardinality(DOMAIN res)
CountReleased(res) == Cardinality({u \in DOMAIN res : res[u] \notin {Undefined, Skipped}})

\* The rest of multiSemanticRelease once Promise.all has settled: it
\* rethrows the rejection, or logs the count and returns the packages.
Settle ==
    /\ phase = "running"
    /\ PromiseAll(pc) # "pending"
    /\ IF PromiseAll(pc) = "rejected"
       THEN phase' = "rejected" /\ error' = "UnitError" /\ released' = released
       ELSE phase' = "resolved" /\ error' = error /\ released' = CountReleased(result)
    /\ UNCHANGED <<args, flags, packages, localDeps, result, pc, synchronizer,
                   seen, engineOpts, config, release,
                   cli>>

Next ==
    \/ CheckParams
    \/ LoadPackages
    \/ LinkLocalDeps
    \/ CycleCheck
    \/ SpawnTasks
    \/ Settle
    \/ \E u \in Units : PassInitGate(u)
    \/ \E u \in Units : VerifyDone(u)
    \/ \E u \in Units : PassDepGate(u)
    \/ \E u \in Units : AnalyzeRelease(u)
    \/ \E u \in Units : AnalyzeSkip(u)
    \/ \E u \in Units : PrepareDone(u)
    \/ \E u \in Units : EngineReturn(u)
    \/ \E u \in Units : EngineFail(u)

Spec == Init /\ [][Next]_vars

\* ------------------------------------------------ graph building on its own
\* Sources whose names may coincide and whose manifests declare, in any of
\* the four dependency maps, the name "a" and the external name "x".
KindSets ==
    {{}, {"dependencies"}, {"devDependencies"}, {"peerDependencies"},
     {"optionalDependencies"}, {"dependencies", "devDependencies"}}
ExternalKindSets == {{}, {"dependencies"}, {"peerDependencies"}}
DeclaredIn(kind, inA, inX, externalFirst) ==
    LET a == IF kind \in inA THEN <<UnitName(1)>> ELSE <<>>
        x == IF kind \in inX THEN <<ExternalName>> ELSE <<>>
    IN IF externalFirst THEN x \o a ELSE a \o x
GraphManifests ==
    {Manifest(n, DeclaredIn("dependencies", inA, inX, xf),
                 DeclaredIn("devDependencies", inA, inX, xf),
                 DeclaredIn("peerDependencies", inA, inX, xf),
                 DeclaredIn("optionalDependencies", inA, inX, xf)) :
        n \in {UnitName(1), UnitName(2)}, inA \in KindSets, inX \in ExternalKindSets,
        xf \in BOOLEAN}

LoadGraphSources ==
    /\ phase = "checked"
    /\ \E n \in 0..MaxUnits : \E ms \in [1..n -> GraphManifests] :
            Load(ms, [i \in 1..n |-> NoOptions])

SuppliedArgs == [paths : {"list"}, packageManifests : {Absent}, settings : {"ok"}]

InitGraph ==
    InitWith(SuppliedArgs,
             [sequentialInit : {FALSE}, sequentialPrepare : BOOLEAN,
              tagFormat : {NoTemplate}, deps : {DefaultDeps}, branches : {Undefined},
              other : {Undefined}])

NextGraph ==
    \/ CheckParams
    \/ LoadGraphSources
    \/ LinkLocalDeps
    \/ CycleCheck

SpecGraph == InitGraph /\ [][NextGraph]_vars

\* -------------------------------------------------- tag formats on their own
\* Unit names over the characters of a scoped package name, versions over
\* the characters of a version number.
RECURSIVE Words(_, _)
Words(chars, n) ==
    IF n = 0 THEN {<<>>}
    ELSE {Append(w, c) : w \in Words(chars, n - 1), c \in chars}
WordsUpTo(chars, n) == UNION {Words(chars, k) : k \in 1..n}

TagNames == WordsUpTo({"a", "@"}, MaxNameLen)
Versions == WordsUpTo({"1", "."}, MaxVersionLen)
TagFormats == {NoTemplate, <<VersionVar>>, <<"v", VersionVar>>}

LoadTagSources ==
    /\ phase = "checked"
    /\ \E n \in 0..MaxUnits : \E names \in [1..n -> TagNames] :
            \E os \in [1..n -> [tagFormat : {NoTemplate, <<VersionVar>>},
                                  branches : {Undefined}, other : {Undefined}]] :
                Load([i \in 1..n |-> Manifest(names[i], <<>>, <<>>, <<>>, <<>>)], os)

\* One unit's task runs up to the engine invocation, whatever the inline
\* plugin carries.
ReleaseWith(u, inlinePlugin) ==
    /\ phase \in {"queued", "running"}
    /\ ~NeedsInitGate(flags)
    /\ pc[u] = "unstarted"
    /\ \A v \in 1..(u - 1) : pc[v] # "unstarted"
    /\ phase' = "running"
    /\ synchronizer' = getSynchronizer
    /\ pc' = [pc EXCEPT ![u] = "verify"]
    /\ engineOpts' = [engineOpts EXCEPT ![u] = Invoke(u, inlinePlugin)]
    /\ UNCHANGED <<args, flags, error, packages, localDeps, result, seen, released, config, release,
                   cli>>

InitTag ==
    InitWith(SuppliedArgs,
             [sequentialInit : {FALSE}, sequentialPrepare : {FALSE},
              tagFormat : {NoTemplate, <<"v", VersionVar>>}, deps : {DefaultDeps},
              branches : {Undefined}, other : {Undefined}])

NextTag ==
    \/ CheckParams
    \/ LoadTagSources
    \/ LinkLocalDeps
    \/ CycleCheck
    \/ \E u \in Units : \E t \in TagFormats : ReleaseWith(u, [NoOptions EXCEPT !.tagFormat = t])

SpecTag == InitTag /\ [][NextTag]_vars

\* ------------------------------------------------- a chain of three units
\* The sources a, b and c: c depends on b and b depends on a.
ChainSources ==
    << Manifest(UnitName(1), <<>>, <<>>, <<>>, <<>>),
       Manifest(UnitName(2), <<UnitName(1)>>, <<>>, <<>>, <<>>),
       Manifest(UnitName(3), <<UnitName(2)>>, <<>>, <<>>, <<>>) >>

LoadChain ==
    /\ phase = "checked"
    /\ Load(ChainSources, [i \in DOMAIN ChainSources |-> NoOptions])

InitChain == InitWith(SuppliedArgs, RunFlags)

NextChain ==
    \/ CheckParams
    \/ LoadChain
    \/ LinkLocalDeps
    \/ CycleCheck
    \/ SpawnTasks
    \/ Settle
    \/ \E u \in Units : PassInitGate(u)
    \/ \E u \in Units : VerifyDone(u)
    \/ \E u \in Units : PassDepGate(u)
    \/ \E u \in Units : AnalyzeRelease(u)
    \/ \E u \in Units : AnalyzeSkip(u)
    \/ \E u \in Units : PrepareDone(u)
    \/ \E u \in Units : EngineReturn(u)
    \/ \E u \in Units : EngineFail(u)

SpecChain == InitChain /\ [][NextChain]_vars

\* ---------------------------------------------------------------- fairness
\* The event loop runs every task that can run, and every engine stage
\* eventually returns or fails.
TaskStep(u) ==
    /\ u \in Units
    /\ \/ PassInitGate(u)
       \/ VerifyDone(u)
       \/ PassDepGate(u)
       \/ AnalyzeRelease(u)
       \/ AnalyzeSkip(u)
       \/ PrepareDone(u)
       \/ EngineReturn(u)
       \/ EngineFail(u)
OrchestratorStep ==
    CheckParams \/ LoadPackages \/ LinkLocalDeps \/ CycleCheck \/ SpawnTasks \/ Settle

FairSpec ==
    /\ Spec
    /\ WF_vars(OrchestratorStep)
    /\ \A u \in 1..MaxUnits : WF_vars(TaskStep(u))

\* ------------------------------------------------ sequentialPrepare runs
\* Runs with sequentialPrepare on and sequentialInit off: every graph that
\* reaches the tasks is acyclic and no task waits at "_readyForRelease".
InitPrepare ==
    InitWith(SuppliedArgs,
             [sequentialInit : {FALSE}, sequentialPrepare : {TRUE},
              tagFormat : {NoTemplate}, deps : {DefaultDeps}, branches : {Undefined},
              other : {Undefined}])

NextPrepare ==
    \/ CheckParams
    \/ LoadPackages
    \/ LinkLocalDeps
    \/ CycleCheck
    \/ SpawnTasks
    \/ Settle
    \/ \E u \in Units : VerifyDone(u)
    \/ \E u \in Units : PassDepGate(u)
    \/ \E u \in Units : AnalyzeRelease(u)
    \/ \E u \in Units : AnalyzeSkip(u)
    \/ \E u \in Units : PrepareDone(u)
    \/ \E u \in Units : EngineReturn(u)
    \/ \E u \in Units : EngineFail(u)

SpecPrepare == InitPrepare /\ [][NextPrepare]_vars

\* --------------------------------------------------- sequentialInit runs
\* Runs with sequentialInit on, of up to MaxClaimants units that declare no
\* dependencies: the "_readyForRelease" queue holds several claimants.
ClaimantSources(n) ==
    [i \in 1..n |-> Manifest(UnitName(i), <<>>, <<>>, <<>>, <<>>)]

LoadClaimants ==
    /\ phase = "checked"
    /\ \E n \in 1..MaxClaimants :
            Load(ClaimantSources(n), [i \in 1..n |-> NoOptions])

InitClaimants ==
    InitWith(SuppliedArgs,
             [sequentialInit : {TRUE}, sequentialPrepare : BOOLEAN,
              tagFormat : {NoTemplate}, deps : {DefaultDeps}, branches : {Undefined},
              other : {Undefined}])

ClaimantsOrchestratorStep ==
    CheckParams \/ LoadClaimants \/ LinkLocalDeps \/ CycleCheck \/ SpawnTasks \/ Settle

NextClaimants ==
    \/ CheckParams
    \/ LoadClaimants
    \/ LinkLocalDeps
    \/ CycleCheck
    \/ SpawnTasks
    \/ Settle
    \/ \E u \in Units : PassInitGate(u)
    \/ \E u \in Units : VerifyDone(u)
    \/ \E u \in Units : PassDepGate(u)
    \/ \E u \in Units : AnalyzeRelease(u)
    \/ \E u \in Units : AnalyzeSkip(u)
    \/ \E u \in Units : PrepareDone(u)
    \/ \E u \in Units : EngineReturn(u)
    \/ \E u \in Units : EngineFail(u)

FairClaimants ==
    /\ InitClaimants
    /\ [][NextClaimants]_vars
    /\ WF_vars(ClaimantsOrchestratorStep)
    /\ \A u \in 1..MaxClaimants : WF_vars(TaskStep(u))

\* ------------------------------------------------ option layers on their own
\* A run-time flag, the global configuration, a unit's configuration and
\* the input options each set the option key or leave it unset; a value
\* names the layer that set it.
LayerOptions(v) ==
    [tagFormat : {NoTemplate}, branches : {Undefined, v}, other : {Undefined, v}]

LoadOptionSources ==
    /\ phase = "checked"
    /\ \E n \in 1..MaxUnits :
         \E g \in LayerOptions("global") : \E inp \in LayerOptions("input") :
         \E ps \in [1..n -> LayerOptions("unit")] :
            LoadWith([i \in 1..n |-> Manifest(UnitName(i), <<>>, <<>>, <<>>, <<>>)], g, ps, inp)

InitOptions ==
    InitWith(SuppliedArgs,
             [sequentialInit : BOOLEAN, sequentialPrepare : {FALSE},
              tagFormat : {NoTemplate}, deps : {DefaultDeps},
              branches : {Undefined, "flag"}, other : {Undefined, "flag"}])

NextOptions ==
    \/ CheckParams
    \/ LoadOptionSources
    \/ LinkLocalDeps
    \/ CycleCheck
    \/ SpawnTasks
    \/ \E u \in Units : PassInitGate(u)
    \/ \E u \in Units : VerifyDone(u)

SpecOptions == InitOptions /\ [][NextOptions]_vars

\* ------------------------------------------------------------ bin/cli.js
\* Flag keys and string values are sequences of characters (a name part
\* counts as one character); a flag value is a boolean, a string or a list
\* of strings.
Dot == "."
Comma == ","
Bool(b) == [t |-> "boolean", b |-> b, s |-> <<>>, l |-> <<>>]
Str(s) == [t |-> "string", b |-> FALSE, s |-> s, l |-> <<>>]
List(l) == [t |-> "array", b |-> FALSE, s |-> <<>>, l |-> l]

SequentialInitKey == <<"sequentialInit">>
DepsBumpKey == <<"deps", Dot, "bump">>
DepsReleaseKey == <<"deps", Dot, "release">>
IgnorePackagesKey == <<"ignorePackages">>

\* String.prototype.split(sep); lodash set splits a path on dots alike.
RECURSIVE Split(_, _)
Split(s, sep) ==
    IF s = <<>> THEN << <<>> >>
    ELSE LET rest == Split(Tail(s), sep)
         IN IF Head(s) = sep THEN << <<>> >> \o rest
            ELSE << <<Head(s)>> \o Head(rest) >> \o Tail(rest)

\* An object is the set of its <<path, value>> leaves.
IsPrefix(p, q) == Len(p) <= Len(q) /\ SubSeq(q, 1, Len(p)) = p

\* lodash set(m, k, v): the value at the path of k, created where missing.
set(m, k, v) ==
    LET path == Split(k, Dot)
    IN {e \in m : ~IsPrefix(e[1], path) /\ ~IsPrefix(path, e[1])} \cup {<<path, v>>}

\* JavaScript truthiness of a flag value.
Truthy(v) ==
    CASE v.t = "boolean" -> v.b
      [] v.t = "string" -> v.s # <<>>
      [] OTHER -> TRUE

\* processFlags: toPairs(flags).reduce(...) over the pairs in key order.
RECURSIVE processFlags_NoSplit(_)
processFlags_NoSplit(pairs) ==
    IF pairs = <<>> THEN {}
    ELSE LET m == processFlags_NoSplit(SubSeq(pairs, 1, Len(pairs) - 1))
             k == pairs[Len(pairs)][1]
             v == pairs[Len(pairs)][2]
         IN set(m, k, v)
RECURSIVE processFlags(_)
processFlags(pairs) ==
    IF pairs = <<>> THEN {}
    ELSE LET m == processFlags(SubSeq(pairs, 1, Len(pairs) - 1))
             k == pairs[Len(pairs)][1]
             v == pairs[Len(pairs)][2]
         IN IF k = IgnorePackagesKey /\ Truthy(v)
            THEN set(m, k, List(Split(v.s, Comma)))
            ELSE set(m, k, v)

\* meow: the flags given on the command line, and the declared default of
\* every flag that was not given.
FlagDefaults ==
    << <<DepsBumpKey, Str(<<DefaultDeps.bump>>)>>,
       <<DepsReleaseKey, Str(<<DefaultDeps.release>>)>> >>
GivenKeys(argv) == {argv[i][1] : i \in DOMAIN argv}
meow(argv) ==
    argv \o SelectSeq(FlagDefaults, LAMBDA d : d[1] \notin GivenKeys(argv))

\* Command lines: each flag is absent or given once, in any of a few values.
IgnoreLists == {<<>>} \cup WordsUpTo({"a", Comma}, MaxNameLen)
OptionalFlag(k, values) == {<<>>} \cup {<< <<k, v>> >> : v \in values}
CommandLines ==
    {a \o b \o c \o d :
        a \in OptionalFlag(SequentialInitKey, {Bool(TRUE), Bool(FALSE)}),
        b \in OptionalFlag(DepsBumpKey, {Str(<<"satisfy">>), Str(<<"inherit">>)}),
        c \in OptionalFlag(DepsReleaseKey, {Str(<<"minor">>)}),
        d \in OptionalFlag(IgnorePackagesKey, {Str(w) : w \in IgnoreLists})}

\* runner(processFlags(cli.flags))
RunCli ==
    /\ ~cli.processed
    /\ cli' = [cli EXCEPT !.processed = TRUE, !.passed = processFlags(meow(cli.given))]
    /\ UNCHANGED <<args, flags, phase, error, packages, localDeps, result, pc,
                   synchronizer, seen, released, engineOpts, config, release>>

InitCli ==
    /\ InitRun(SuppliedArgs, {CHOOSE f \in RunFlags : ~f.sequentialInit /\ ~f.sequentialPrepare})
    /\ cli \in [given : CommandLines, processed : {FALSE}, passed : {{}}]

NextCli == RunCli

SpecCli == InitCli /\ [][NextCli]_vars

\* ================================================================== claims
\* A directed cycle of the local-dependency graph, as a closed walk.
HasCycle(ld) ==
    \E k \in 1..Len(ld) : \E p \in [1..k -> DOMAIN ld] :
        /\ \A i \in 1..(k - 1) : p[i + 1] \in Range(ld[p[i]])
        /\ p[1] \in Range(ld[p[k]])

NothingStarted ==
    /\ ~synchronizer.created
    /\ \A u \in DOMAIN pc :
        pc[u] = "unstarted" /\ result[u] = Undefined /\ ~engineOpts[u].invoked

\* C1: with sequentialPrepare enabled and a cyclic local-dependency graph,
\* the run fails with the cyclic-dependency error before any unit's pipeline
\* stage executes: no task is started, no Synchronizer claim or await
\* happens, every result is still pending.
C1_CyclicFailsBeforeAnyStage ==
    (flags.sequentialPrepare /\ HasCycle(localDeps)) =>
        /\ phase \in {"linked", "rejected"}
        /\ phase = "rejected" => error = "ValueError:cyclic"
        /\ NothingStarted

C1_Witness ==
    /\ flags.sequentialPrepare
    /\ phase = "rejected"
    /\ error = "ValueError:cyclic"
    /\ Len(packages) = 2
    /\ localDeps[1] = <<2>>
    /\ localDeps[2] = <<1>>

\* C2: in every mode, a unit's analyze or prepare stage never reads the
\* result of a local dependency while that result is still pending.
C2_DependencyResultGating ==
    \A u \in DOMAIN pc :
        /\ \A r \in seen[u] : r[2] # Undefined
        /\ pc[u] \in {"analyze", "prepare"} =>
              \A d \in Range(localDeps[u]) : result[d] # Undefined

C2_Witness ==
    /\ ~flags.sequentialPrepare
    /\ ~flags.sequentialInit
    /\ \E u \in DOMAIN pc :
        /\ pc[u] = "prepare"
        /\ \E r \in seen[u] : r[1] # u /\ r[2] = Released

\* C3: with sequentialInit every unit claims and awaits "_readyForRelease"
\* before its engine invocation starts, and no two units are past that gate
\* with verifyConditions unfinished.
C3_VerifyMutualExclusion ==
    flags.sequentialInit =>
        /\ \A u \in DOMAIN pc :
              (pc[u] \notin {"unstarted", "waitInit"} \/ engineOpts[u].invoked)
                  => waitFor(synchronizer, u)
        /\ Cardinality({u \in DOMAIN pc : pc[u] = "verify"}) <= 1

C3_Witness ==
    /\ flags.sequentialInit
    /\ Len(packages) = 2
    /\ pc[1] = "gate"
    /\ pc[2] = "verify"

NeitherSuppliedArgs == args.paths = Absent /\ args.packageManifests = Absent
Settled(u) == pc[u] \in {"done", "failed"}
SomeFailed == \E u \in DOMAIN pc : pc[u] = "failed"

\* C4: whatever units fail, multiSemanticRelease waits until every task
\* has settled and then completes normally, returning the unit list and
\* reporting the released count.
C4_Original ==
    (SomeFailed /\ phase # "running") =>
        /\ phase = "resolved"
        /\ \A u \in DOMAIN pc : Settled(u)
        /\ released = CountReleased(result)

AtGate(u) == u \in DOMAIN pc /\ pc[u] = "gate"
GatedOnFailed(u, d) ==
    /\ u \in DOMAIN localDeps
    /\ d \in Range(localDeps[u])
    /\ pc[d] = "failed"
    /\ pc[u] = "gate"

\* C5: a unit blocked at the gate on a dependency whose engine invocation
\* failed eventually proceeds.
C5_Original ==
    \A u, d \in 1..MaxUnits : GatedOnFailed(u, d) ~> ~AtGate(u)

\* C6: after a unit's task has ended by failure, the unit's result is no
\* longer pending.
C6_Original == \A u \in DOMAIN pc : pc[u] = "failed" => result[u] # Undefined

\* C7: a unit's result changes at most once, from undefined to false or a
\* release outcome, in the step in which the unit's own task ends, and that
\* step writes no other unit's result.
C7_ResultWriteOnce ==
    [][\A u \in DOMAIN result :
          (u \in DOMAIN result' /\ result'[u] # result[u]) =>
              /\ result[u] = Undefined
              /\ result'[u] \in {Skipped, Released}
              /\ pc[u] \in ActiveStages
              /\ pc'[u] = "done"
              /\ \A v \in DOMAIN result \ {u} : result'[v] = result[v]]_vars

C7_Witness ==
    \E u, v \in DOMAIN result :
        result[u] = Released /\ result[v] = Skipped /\ phase = "resolved"

\* C8: when neither paths nor packageManifests is supplied the run fails
\* with the missing-sources error before anything starts: no unit loaded,
\* no Synchronizer created, no engine invocation.
C8_NoSourcesFailsFirst ==
    (NeitherSuppliedArgs /\ phase # "start") =>
        /\ phase = "rejected"
        /\ error = "Error:noSources"
        /\ packages = <<>>
        /\ NothingStarted

C8_Witness ==
    /\ NeitherSuppliedArgs
    /\ args.settings = "invalid"
    /\ phase = "rejected"

\* The names a manifest declares, in any dependency map.
DeclaredNames(m) ==
    Range(m.dependencies) \cup Range(m.devDependencies) \cup Range(m.peerDependencies)
        \cup Range(m.optionalDependencies)
NoDuplicates(s) == \A i, j \in DOMAIN s : s[i] = s[j] => i = j
Linked == phase \notin {"start", "checked", "loaded"} /\ DOMAIN localDeps = Units

\* C9 as stated: after graph building, a unit's localDeps holds exactly the
\* loaded units whose name is among the unit's declared dependency names,
\* each once; an unmatched name gives no entry and no error.
C9_Original ==
    Linked =>
        \A i \in Units :
            /\ NoDuplicates(localDeps[i])
            /\ Range(localDeps[i]) =
                  {j \in Units : packages[j].name \in DeclaredNames(packages[i].manifest)}

\* C9 as amended: a unit's localDeps holds, each once, exactly the loaded
\* units that are the first of the source list to bear a name among the
\* unit's declared dependency names; an unmatched name gives no entry and
\* no error.
C9_LocalDepsFirstMatch ==
    Linked =>
        /\ phase = "linked" => error = "none"
        /\ \A i \in Units :
            /\ NoDuplicates(localDeps[i])
            /\ Range(localDeps[i]) =
                  {j \in Units :
                      /\ packages[j].name \in DeclaredNames(packages[i].manifest)
                      /\ \A k \in 1..(j - 1) : packages[k].name # packages[j].name}

C9_Witness ==
    /\ phase = "linked"
    /\ Len(packages) = 2
    /\ packages[1].name = packages[2].name
    /\ ExternalName \in DeclaredNames(packages[2].manifest)
    /\ packages[1].name \in Range(packages[2].manifest.optionalDependencies)
    /\ localDeps[2] = <<1>>

TagsOf(u) == {RenderTag(engineOpts[u].tagFormat, v) : v \in Versions}

\* C10: the tag template handed to the engine for a unit is always
\* "<name>@${version}", whatever tagFormat the flags, the unit's options or
\* the inline plugin carry; so units of different names never render the
\* same tag, and no unit renders a bare version.
C10_TagFormatForced ==
    \A u \in DOMAIN engineOpts :
        engineOpts[u].invoked =>
            /\ engineOpts[u].tagFormat = packages[u].name \o <<"@", VersionVar>>
            /\ TagsOf(u) \cap Versions = {}
            /\ \A w \in DOMAIN engineOpts :
                  (engineOpts[w].invoked /\ packages[w].name # packages[u].name)
                      => TagsOf(u) \cap TagsOf(w) = {}

C10_Witness ==
    /\ flags.tagFormat = <<"v", VersionVar>>
    /\ Len(packages) = 2
    /\ packages[1].name = <<"a">>
    /\ packages[2].name = <<"a", "@">>
    /\ packages[1].options.tagFormat = <<VersionVar>>
    /\ engineOpts[1].invoked
    /\ engineOpts[2].invoked

\* C11: under the default policies, for the chain c -> b -> a in which only
\* a has a feature commit, every run that completes ends with a released as
\* minor, b and c released as patch, all three results release outcomes,
\* b's manifest referencing a's new version and c's manifest b's.
C11_ChainPropagation ==
    (/\ phase = "resolved"
     /\ release[1].own = "minor"
     /\ release[2].own = "none"
     /\ release[3].own = "none") =>
        /\ \A u \in Units : result[u] = Released
        /\ release[1].nextType = "minor"
        /\ release[2].nextType = "patch"
        /\ release[3].nextType = "patch"
        /\ release[1].version = <<1, 1, 0>>
        /\ release[2].version = <<1, 0, 1>>
        /\ release[2].ranges = {<<1, release[1].version>>}
        /\ release[3].ranges = {<<2, release[2].version>>}

C11_Witness ==
    /\ phase = "resolved"
    /\ flags.sequentialInit
    /\ release[1].own = "minor"
    /\ release[2].own = "none"
    /\ release[3].own = "none"
    /\ result[3] = Released

\* A task is blocked at a Synchronizer await: its turn at the
\* "_readyForRelease" gate has not come, or a local dependency it waits for
\* has no result.
Blocked(u) ==
    \/ pc[u] = "waitInit" /\ ~waitFor(synchronizer, u)
    \/ pc[u] = "gate" /\ ~DepGateOpen(flags, localDeps, result, u)
AllUnfinishedBlocked ==
    /\ \E u \in DOMAIN pc : ~Settled(u)
    /\ \A u \in DOMAIN pc : ~Settled(u) => Blocked(u)

\* C12: in a run that has passed the startup checks no state is reached in
\* which all unfinished unit tasks are blocked at a Synchronizer await.
C12_Original == ~AllUnfinishedBlocked

\* A unit whose turn came and whose engine invocation failed before
\* verifyConditions finished: the claimants queued behind it were never
\* released.
PastInitGate(u) == pc[u] \notin {"unstarted", "waitInit"}
VerifyFinished(u) == pc[u] \notin {"unstarted", "waitInit", "verify"}
FailedInVerify(u) ==
    /\ pc[u] = "failed"
    /\ waitFor(synchronizer, u)
    /\ synchronizer.queue # <<>>
    /\ \A v \in synchronizer.granted : v <= u

TaskStarted ==
    \/ synchronizer.lucky # 0
    \/ \E u \in DOMAIN pc : pc[u] # "unstarted"
AllLinked ==
    /\ Len(packages) = Len(config.sources)
    /\ DOMAIN localDeps = DOMAIN packages
    /\ \A i \in DOMAIN packages : localDeps[i] = LocalDepsOf(packages, i)

\* C14: no unit task starts before every unit is loaded, every unit's
\* localDeps is computed and the cycle check has passed; once a task has
\* started no localDeps changes; and a step that changes a unit's result is
\* a step of that unit's own task that changes no other unit's result.
C14_PhasesOrderedDepsFrozen ==
    /\ [](TaskStarted =>
            /\ phase \in {"running", "resolved", "rejected"}
            /\ error \in {"none", "UnitError"}
            /\ AllLinked
            /\ ~(flags.sequentialPrepare /\ HasCycle(localDeps)))
    /\ [][TaskStarted => localDeps' = localDeps]_vars
    /\ [][TaskStarted =>
            \A u \in DOMAIN result :
                result'[u] # result[u] =>
                    /\ pc'[u] # pc[u]
                    /\ \A v \in DOMAIN result \ {u} : result'[v] = result[v]]_vars

C14_Witness ==
    /\ phase = "running"
    /\ Len(packages) = 2
    /\ localDeps[2] = <<1>>
    /\ result[1] = Released
    /\ result[2] = Undefined
    /\ pc[2] = "prepare"

\* The first value of a list of layers that is set.
FirstSet(layers) ==
    IF \E i \in DOMAIN layers : layers[i] # Undefined
    THEN layers[CHOOSE i \in DOMAIN layers :
                    layers[i] # Undefined /\ \A j \in 1..(i - 1) : layers[j] = Undefined]
    ELSE Undefined

\* The option keys other than tagFormat: one the engine has a default for
\* and one it has none for.
OptionKeys == {"branches", "other"}
EngineDefault(k) == IF k = "branches" THEN DefaultBranches ELSE Undefined

\* The layers of flags > per-unit > global that set key k for unit u.
LayersOf(u, k) == <<flags[k], config.pkgOptions[u][k], config.globalOptions[k]>>
SetInSeveralLayers(u, k) ==
    Cardinality({i \in DOMAIN LayersOf(u, k) : LayersOf(u, k)[i] # Undefined}) > 1

\* C15 as stated: when the key is set in more than one layer, the value
\* handed to the engine is the flag's if the flags set the key, otherwise
\* the per-unit value, otherwise the global value.
C15_Original ==
    \A u \in DOMAIN engineOpts : \A k \in OptionKeys :
        (/\ engineOpts[u].invoked
         /\ config.inputOptions[k] = Undefined
         /\ SetInSeveralLayers(u, k)) =>
            engineOpts[u][k] = FirstSet(LayersOf(u, k))

\* C15 as amended: the value handed to the engine is the input options'
\* if they set the key, otherwise the per-unit value, otherwise the global
\* value, otherwise the engine's default if it has one for the key, and the
\* flag's value only when none of these exists.
C15_ConfigOverridesFlags ==
    \A u \in DOMAIN engineOpts : \A k \in OptionKeys :
        engineOpts[u].invoked =>
            /\ engineOpts[u][k] =
                    FirstSet(<<config.inputOptions[k], config.pkgOptions[u][k],
                               config.globalOptions[k], EngineDefault(k), flags[k]>>)
            /\ engineOpts[u]._pkgOptions[k] =
                    FirstSet(<<config.inputOptions[k], config.pkgOptions[u][k],
                               config.globalOptions[k], EngineDefault(k)>>)

C15_Witness ==
    /\ Len(engineOpts) = 2
    /\ engineOpts[2].invoked
    /\ flags.other = "flag"
    /\ flags.branches = "flag"
    /\ config.globalOptions.other = "global"
    /\ config.globalOptions.branches = Undefined
    /\ config.pkgOptions[1].other = "unit"
    /\ config.pkgOptions[1].branches = Undefined
    /\ config.pkgOptions[2].other = Undefined
    /\ config.inputOptions.other = Undefined
    /\ config.inputOptions.branches = Undefined
    /\ engineOpts[1].other = "unit"
    /\ engineOpts[1].branches = DefaultBranches
    /\ engineOpts[2].other = "global"

ReleasedUnits == {u \in DOMAIN result : result[u] = Released}
SkippedUnits == {u \in DOMAIN result : result[u] = Skipped}

\* C16: when multiSemanticRelease returns normally the returned list holds
\* one unit per supplied source, in the order supplied, every result is
\* false or a release outcome, and the reported count is the number of
\* release outcomes, so that released + skipped = N.
C16_NormalReturn ==
    phase = "resolved" =>
        /\ Len(packages) = Len(config.sources)
        /\ \A i \in DOMAIN packages :
              /\ packages[i].manifest = config.sources[i]
              /\ packages[i].name = config.sources[i].name
        /\ DOMAIN result = DOMAIN packages
        /\ \A u \in DOMAIN result : result[u] \in {Skipped, Released}
        /\ released = Cardinality(ReleasedUnits)
        /\ released + Cardinality(SkippedUnits) = Len(packages)

C16_Witness ==
    /\ phase = "resolved"
    /\ Len(packages) = 2
    /\ result[1] = Skipped
    /\ result[2] = Released
    /\ released = 1

\* The strings of a list joined by a separator.
RECURSIVE Join(_, _)
Join(l, sep) ==
    IF l = <<>> THEN <<>>
    ELSE IF Len(l) = 1 THEN l[1]
    ELSE l[1] \o <<sep>> \o Join(Tail(l), sep)
GivenValue(k) ==
    LET i == CHOOSE j \in DOMAIN cli.given : cli.given[j][1] = k IN cli.given[i][2]
IsGiven(k) == k \in GivenKeys(cli.given)
PassedAt(path) == {e[2] : e \in {f \in cli.passed : f[1] = path}}

\* C17: a non-empty ignorePackages string is passed as the list of its
\* comma-separated parts, deps.bump and deps.release are passed nested under
\* deps, every other flag is passed under its own key unchanged, and a
\* deps.bump or deps.release that was not given is passed as "override" and
\* "patch".
C17_FlagProcessing ==
    cli.processed =>
        /\ (IsGiven(IgnorePackagesKey) /\ GivenValue(IgnorePackagesKey).s # <<>>) =>
              \E v \in PassedAt(<<IgnorePackagesKey>>) :
                  /\ PassedAt(<<IgnorePackagesKey>>) = {v}
                  /\ v.t = "array"
                  /\ Join(v.l, Comma) = GivenValue(IgnorePackagesKey).s
                  /\ \A i \in DOMAIN v.l : Comma \notin Range(v.l[i])
        /\ (IsGiven(IgnorePackagesKey) /\ GivenValue(IgnorePackagesKey).s = <<>>) =>
              PassedAt(<<IgnorePackagesKey>>) = {GivenValue(IgnorePackagesKey)}
        /\ IsGiven(SequentialInitKey) =>
              PassedAt(<<SequentialInitKey>>) = {GivenValue(SequentialInitKey)}
        /\ PassedAt(<< <<"deps">>, <<"bump">> >>) =
              {IF IsGiven(DepsBumpKey) THEN GivenValue(DepsBumpKey) ELSE Str(<<"override">>)}
        /\ PassedAt(<< <<"deps">>, <<"release">> >>) =
              {IF IsGiven(DepsReleaseKey) THEN GivenValue(DepsReleaseKey) ELSE Str(<<"patch">>)}
        /\ \A e \in cli.passed :
              \/ e[1] \in {<< <<"deps">>, <<"bump">> >>, << <<"deps">>, <<"release">> >>}
              \/ \E k \in GivenKeys(cli.given) \ {DepsBumpKey, DepsReleaseKey} : e[1] = <<k>>

C17_Witness ==
    /\ cli.processed
    /\ IsGiven(IgnorePackagesKey)
    /\ GivenValue(IgnorePackagesKey).s = <<"a", Comma>>
    /\ PassedAt(<<IgnorePackagesKey>>) = {List(<< <<"a">>, <<>> >>)}
    /\ ~IsGiven(DepsBumpKey)
    /\ IsGiven(DepsReleaseKey)
====
